---- MODULE Spec2Model ----
(***************************************************************************)
(* Model of kisunyabot.py: a Telegram bot that answers a "start" command   *)
(* or the button text with an image fetched from one of two HTTP           *)
(* endpoints, and any other text with a fixed sentence.                    *)
(*                                                                         *)
(* One handler invocation is a sequence of steps (pc).  The outcomes of    *)
(* the calls to the outside world (the two HTTP GETs, the gateway's        *)
(* send_message and send_photo) are fixed per invocation in env, which is  *)
(* chosen when the update is dispatched; the handlers only consult it.     *)
(* http and out record, in order, the HTTP requests issued and the         *)
(* gateway calls attempted by the current invocation.                      *)
(*                                                                         *)
(* Spec is the program as it runs: main starts up, then updates are        *)
(* handled one at a time.  SpecRepeat keeps one returned invocation for    *)
(* comparison with later ones, SpecConc interleaves two invocations, and   *)
(* SpecParse applies parse_answer to every payload of the bounded set.     *)
(*                                                                         *)
(* Texts are ASCII stand-ins for the Russian literals of the source; a     *)
(* text is a sequence of fragments so that the f-string of the greeting    *)
(* keeps the name it interpolates.                                         *)
(***************************************************************************)
EXTENDS Integers, Sequences, FiniteSets, TLC

VARIABLES pc, handler, update, env, http, out, response, image, error, log,
          escaped, payload, parsed,
          config, TELEGRAM_TOKEN, startup, earlier, other

vars == <<pc, handler, update, env, http, out, response, image, error, log,
          escaped, payload, parsed,
          config, TELEGRAM_TOKEN, startup, earlier, other>>

\* config: the module-level settings the handlers read; TELEGRAM_TOKEN: the
\* value of os.getenv('TOKEN'); startup: how far main has come; earlier: an
\* invocation that has returned, kept for comparison; other: the invocation
\* that is suspended while this one runs, when updates are handled concurrently
restVars == <<config, TELEGRAM_TOKEN, startup, earlier, other>>

handlerVars == <<pc, handler, update, env, http, out, response, image, error,
                 log, escaped>>

-----------------------------------------------------------------------------
(* Bounds of the model *)

\* longest JSON list a decoded payload holds
MaxElems == 2

\* number of distinct chats that send updates
NumChats == 2

-----------------------------------------------------------------------------
(* Configuration constants of the program *)

DEFAULT_ENDPOINT == "https://api.thecatapi.com/v1/images/search"

BACKUP_ENDPOINT == "https://api.thedogapi.com/v1/images/search"

BUTTON == "Podai kotika!"

\* reply keyboard with the single button, attached to every text sent
MARKUP == <<BUTTON>>

\* HTTPStatus.OK
OK == 200

APOLOGY == <<"K sozhaleniyu, servis na dannyi moment nedostupen. Poprobuite obratitsya pozdnee.">>

CANT_CHAT == <<"K sozhaleniyu, ya ne umeyu obshchatsya. No zato masterski ishchu fotografii kotikov.">>

\* the module-level names the handlers read, as bound at import
Config ==
    [DEFAULT_ENDPOINT |-> DEFAULT_ENDPOINT, BACKUP_ENDPOINT |-> BACKUP_ENDPOINT,
     BUTTON |-> BUTTON]

\* os.getenv('TOKEN'): None when the variable is not set, else its value
Tokens == {"None", "", "123:abc"}

-----------------------------------------------------------------------------
(* JSON payloads.  A payload is what the body of an HTTP response is:      *)
(* text that does not decode ("bad"), or a decoded value: a list of        *)
(* elements, or a non-list ("dict", "str", "num", "null").  An element is  *)
(* an object ("dict", d its fields) or something else.                     *)

NoFields == [k \in {} |-> ""]

Keys == {"url", "id"}

FieldValues == {"http://x/cat.png", "http://x/dog.png"}

Objects == UNION {[K -> FieldValues] : K \in SUBSET Keys}

Elements ==
    {[t |-> "dict", d |-> f] : f \in Objects}
        \cup {[t |-> k, d |-> NoFields] : k \in {"str", "num", "list"}}

SeqsUpTo(S, n) == UNION {[1..k -> S] : k \in 0..n}

Payloads ==
    {[t |-> "list", items |-> s] : s \in SeqsUpTo(Elements, MaxElems)}
        \cup {[t |-> k, items |-> <<>>] : k \in {"bad", "dict", "str", "num", "null"}}

NoBody == [t |-> "null", items |-> <<>>]

-----------------------------------------------------------------------------
(* Errors and results *)

NoError == [type |-> "none", msg |-> "", endpoint |-> "", status |-> 0]

Raise(type, msg) == [type |-> type, msg |-> msg, endpoint |-> "", status |-> 0]

\* APIAnswerStatusCodeError(text): text names the endpoint and the status
APIAnswerStatusCodeError(endpoint, status) ==
    [type |-> "APIAnswerStatusCodeError", msg |-> "endpoint unavailable",
     endpoint |-> endpoint, status |-> status]

\* what requests.get raises on a transport-level failure
RequestException == Raise("RequestException", "transport")

-----------------------------------------------------------------------------
(* parse_answer: the checks of the decoded payload, in the order of the    *)
(* code.  response.json() failing is caught as JSONDecodeError, and the    *)
(* handler's `raise error(text)` calls the exception instance, which       *)
(* raises TypeError.                                                       *)

parse_answer_last(body) ==
    IF body.t = "bad"
    THEN [raised |-> TRUE, error |-> Raise("TypeError", "not callable"),
          value |-> "", log |-> <<<<"error", "not json">>>>]
    ELSE IF body.t # "list"
    THEN [raised |-> TRUE, error |-> Raise("TypeError", "expected list"),
          value |-> "", log |-> <<<<"error", "expected list">>>>]
    ELSE IF body.items = <<>>
    THEN [raised |-> TRUE, error |-> Raise("ValueError", "empty"),
          value |-> "", log |-> <<<<"error", "empty">>>>]
    ELSE LET response_information == body.items[Len(body.items)] IN
         IF response_information.t # "dict"
         THEN [raised |-> TRUE, error |-> Raise("TypeError", "expected dict"),
               value |-> "", log |-> <<<<"error", "expected dict">>>>]
         ELSE IF "url" \notin DOMAIN response_information.d
         THEN [raised |-> TRUE, error |-> Raise("KeyError", "url"),
               value |-> "", log |-> <<<<"error", "no url">>>>]
         ELSE [raised |-> FALSE, error |-> NoError,
               value |-> response_information.d["url"],
               log |-> <<<<"info", "parsed">>>>]

parse_answer_unordered(body) ==
    IF body.t = "bad"
    THEN [raised |-> TRUE, error |-> Raise("TypeError", "not callable"),
          value |-> "", log |-> <<<<"error", "not json">>>>]
    ELSE IF body.t # "list"
    THEN [raised |-> TRUE, error |-> Raise("TypeError", "expected list"),
          value |-> "", log |-> <<<<"error", "expected list">>>>]
    ELSE IF body.items = <<>>
    THEN [raised |-> TRUE, error |-> Raise("ValueError", "empty"),
          value |-> "", log |-> <<<<"error", "empty">>>>]
    ELSE LET response_information == body.items[1] IN
         IF "url" \notin DOMAIN response_information.d
         THEN [raised |-> TRUE, error |-> Raise("KeyError", "url"),
               value |-> "", log |-> <<<<"error", "no url">>>>]
         ELSE IF response_information.t # "dict"
         THEN [raised |-> TRUE, error |-> Raise("TypeError", "expected dict"),
               value |-> "", log |-> <<<<"error", "expected dict">>>>]
         ELSE [raised |-> FALSE, error |-> NoError,
               value |-> response_information.d["url"],
               log |-> <<<<"info", "parsed">>>>]

parse_answer(body) ==
    IF body.t = "bad"
    THEN [raised |-> TRUE, error |-> Raise("TypeError", "not callable"),
          value |-> "", log |-> <<<<"error", "not json">>>>]
    ELSE IF body.t # "list"
    THEN [raised |-> TRUE, error |-> Raise("TypeError", "expected list"),
          value |-> "", log |-> <<<<"error", "expected list">>>>]
    ELSE IF body.items = <<>>
    THEN [raised |-> TRUE, error |-> Raise("ValueError", "empty"),
          value |-> "", log |-> <<<<"error", "empty">>>>]
    ELSE LET response_information == body.items[1] IN
         IF response_information.t # "dict"
         THEN [raised |-> TRUE, error |-> Raise("TypeError", "expected dict"),
               value |-> "", log |-> <<<<"error", "expected dict">>>>]
         ELSE IF "url" \notin DOMAIN response_information.d
         THEN [raised |-> TRUE, error |-> Raise("KeyError", "url"),
               value |-> "", log |-> <<<<"error", "no url">>>>]
         ELSE [raised |-> FALSE, error |-> NoError,
               value |-> response_information.d["url"],
               log |-> <<<<"info", "parsed">>>>]

NoParsed == [raised |-> FALSE, error |-> NoError, value |-> "", log |-> <<>>]

-----------------------------------------------------------------------------
(* The outside world of one handler invocation *)

Statuses == {OK, 404, 500}

\* bodies the endpoints answer with: one for each way parse_answer can end
Bodies ==
    {[t |-> "bad", items |-> <<>>],
     [t |-> "dict", items |-> <<>>],
     [t |-> "list", items |-> <<>>],
     [t |-> "list", items |-> <<[t |-> "str", d |-> NoFields]>>],
     [t |-> "list", items |-> <<[t |-> "dict", d |-> [id |-> "http://x/cat.png"]]>>],
     [t |-> "list", items |-> <<[t |-> "dict", d |-> [url |-> "http://x/cat.png"]]>>]}

\* requests.get raised: no response object
TransportError == [err |-> TRUE, status |-> 0, body |-> NoBody]

Responses == [err : {FALSE}, status : Statuses, body : Bodies]

Outcomes == {TransportError} \cup Responses

NoResponse == [err |-> FALSE, status |-> 0, body |-> NoBody]

\* most send_message calls one handler makes (greeting, apology)
MaxSends == 2

\* primary, backup: what requests.get does; send[k]: whether the k-th
\* bot.send_message call succeeds; photo: whether bot.send_photo succeeds
Envs ==
    [primary : Outcomes, backup : Outcomes,
     send : [1..MaxSends -> BOOLEAN], photo : BOOLEAN]

NoEnv ==
    [primary |-> TransportError, backup |-> TransportError,
     send |-> [k \in 1..MaxSends |-> FALSE], photo |-> FALSE]

Names == {"Ann", "Bob"}

Texts == {"/start", BUTTON, "hello", "/help"}

Updates == [text : Texts, chat_id : 1..NumChats, first_name : Names]

NoUpdate == [text |-> "", chat_id |-> 0, first_name |-> ""]

-----------------------------------------------------------------------------
(* Gateway calls *)

SendText(chat_id, text) ==
    [op |-> "send_message", chat_id |-> chat_id, arg |-> text, markup |-> MARKUP]

SendImage(chat_id, url) ==
    [op |-> "send_photo", chat_id |-> chat_id, arg |-> <<url>>, markup |-> <<>>]

TelegramError == Raise("TelegramError", "gateway")

\* number of send_message calls already made by this invocation
NumSends(calls) == Cardinality({i \in DOMAIN calls : calls[i].op = "send_message"})

send_message_raising(chat_id, text, ok) ==
    [call |-> SendText(chat_id, text),
     raised |-> ~ok,
     error |-> IF ok THEN NoError ELSE TelegramError,
     log |-> IF ok THEN <<<<"info", "sent">>>> ELSE <<>>]

\* send_message: the gateway call in a try that logs and swallows any failure
send_message(chat_id, text, ok) ==
    [call |-> SendText(chat_id, text),
     raised |-> FALSE,
     error |-> NoError,
     log |-> IF ok THEN <<<<"info", "sent">>>> ELSE <<<<"error", "send failed">>>>]

greeting_anonymous(name) == <<"Privet, ", "", ". Posmotri, kakogo kotika ya tebe nashel!">>

\* f'Привет, {name}. Посмотри, какого котика я тебе нашёл!'
greeting(name) == <<"Privet, ", name, ". Posmotri, kakogo kotika ya tebe nashel!">>

apology_text_detailed(h, err) == <<APOLOGY[1], err.type>>

\* text of the except branch of new_image and of wake_up: the same literal in
\* both, built from nothing of the caught error
apology_text(h, err) == APOLOGY

-----------------------------------------------------------------------------
(* get_response, one operator per request *)

get_response_primary_transport_only(outcome) ==
    IF outcome.err
    THEN [failed |-> TRUE, response |-> NoResponse,
          log |-> <<<<"error", "primary failed">>, <<"debug", "try backup">>>>]
    ELSE [failed |-> FALSE, response |-> outcome,
          log |-> <<<<"info", "primary ok">>>>]

get_response_primary_parsing(outcome) ==
    IF outcome.err
    THEN [failed |-> TRUE, response |-> NoResponse,
          log |-> <<<<"error", "primary failed">>, <<"debug", "try backup">>>>]
    ELSE IF outcome.status # OK
    THEN [failed |-> TRUE, response |-> NoResponse,
          log |-> <<<<"error", "primary unavailable">>,
                    <<"error", "primary failed">>, <<"debug", "try backup">>>>]
    ELSE IF parse_answer(outcome.body).raised
    THEN [failed |-> TRUE, response |-> NoResponse,
          log |-> <<<<"error", "primary failed">>, <<"debug", "try backup">>>>]
    ELSE [failed |-> FALSE, response |-> outcome,
          log |-> <<<<"info", "primary ok">>>>]

\* the try block: a transport error or a status other than OK (raised as
\* APIAnswerStatusCodeError inside the try) both end in the except branch
get_response_primary(outcome) ==
    IF outcome.err
    THEN [failed |-> TRUE, response |-> NoResponse,
          log |-> <<<<"error", "primary failed">>, <<"debug", "try backup">>>>]
    ELSE IF outcome.status # OK
    THEN [failed |-> TRUE, response |-> NoResponse,
          log |-> <<<<"error", "primary unavailable">>,
                    <<"error", "primary failed">>, <<"debug", "try backup">>>>]
    ELSE [failed |-> FALSE, response |-> outcome,
          log |-> <<<<"info", "primary ok">>>>]

get_response_backup_default_text(outcome) ==
    IF outcome.err
    THEN [raised |-> TRUE, error |-> RequestException,
          response |-> NoResponse, log |-> <<>>]
    ELSE IF outcome.status # OK
    THEN [raised |-> TRUE,
          error |-> APIAnswerStatusCodeError(DEFAULT_ENDPOINT, outcome.status),
          response |-> NoResponse, log |-> <<<<"error", "backup unavailable">>>>]
    ELSE [raised |-> FALSE, error |-> NoError,
          response |-> outcome, log |-> <<<<"info", "backup ok">>>>]

get_response_backup_catching(outcome) ==
    IF outcome.err
    THEN [raised |-> TRUE,
          error |-> APIAnswerStatusCodeError(config.BACKUP_ENDPOINT, outcome.status),
          response |-> NoResponse, log |-> <<<<"error", "backup unavailable">>>>]
    ELSE IF outcome.status # OK
    THEN [raised |-> TRUE,
          error |-> APIAnswerStatusCodeError(config.BACKUP_ENDPOINT, outcome.status),
          response |-> NoResponse, log |-> <<<<"error", "backup unavailable">>>>]
    ELSE [raised |-> FALSE, error |-> NoError,
          response |-> outcome, log |-> <<<<"info", "backup ok">>>>]

get_response_backup_unchecked(outcome) ==
    IF outcome.err
    THEN [raised |-> TRUE, error |-> RequestException,
          response |-> NoResponse, log |-> <<>>]
    ELSE [raised |-> FALSE, error |-> NoError,
          response |-> outcome, log |-> <<<<"info", "backup ok">>>>]

\* the except branch: a transport error propagates as it is, a status other
\* than OK raises APIAnswerStatusCodeError naming BACKUP_ENDPOINT
get_response_backup(outcome) ==
    IF outcome.err
    THEN [raised |-> TRUE, error |-> RequestException,
          response |-> NoResponse, log |-> <<>>]
    ELSE IF outcome.status # OK
    THEN [raised |-> TRUE,
          error |-> APIAnswerStatusCodeError(config.BACKUP_ENDPOINT, outcome.status),
          response |-> NoResponse, log |-> <<<<"error", "backup unavailable">>>>]
    ELSE [raised |-> FALSE, error |-> NoError,
          response |-> outcome, log |-> <<<<"info", "backup ok">>>>]

-----------------------------------------------------------------------------
(* Handler registration (main): CommandHandler("start"), then              *)
(* MessageHandler(Filters.text(BUTTON)), then MessageHandler(Filters.text),*)
(* all in one group, so the first handler whose filter matches runs.       *)

command_matches(text) == text = "/start"

Registration_catch_all_first ==
    <<[filter |-> "Filters.text", callback |-> "reply_to_message"],
      [filter |-> "CommandHandler(start)", callback |-> "wake_up"],
      [filter |-> "Filters.text(BUTTON)", callback |-> "new_image"]>>

\* the add_handler calls of main, in their order
Registration ==
    <<[filter |-> "CommandHandler(start)", callback |-> "wake_up"],
      [filter |-> "Filters.text(BUTTON)", callback |-> "new_image"],
      [filter |-> "Filters.text", callback |-> "reply_to_message"]>>

\* Filters.text accepts every message that has a text, commands included
filter_matches(f, u) ==
    CASE f = "CommandHandler(start)" -> command_matches(u.text)
      [] f = "Filters.text(BUTTON)" -> u.text = config.BUTTON
      [] f = "Filters.text" -> u.text # ""

Matching(u) ==
    {i \in DOMAIN startup.handlers : filter_matches(startup.handlers[i].filter, u)}

select_handler_any_text(u) ==
    IF command_matches(u.text) THEN "wake_up" ELSE "new_image"

\* the callback of the first registered handler whose filter accepts u
select_handler(u) ==
    startup.handlers[CHOOSE i \in Matching(u) : \A j \in Matching(u) : i <= j].callback

Entry(h) ==
    CASE h = "wake_up" -> "greet"
      [] h = "new_image" -> "get_primary"
      [] OTHER -> "reply"

Received == <<<<"debug", "received">>>>

-----------------------------------------------------------------------------
(* Initial state: no update is being handled *)

InitHandler ==
    /\ pc = "idle"
    /\ handler = "none"
    /\ update = NoUpdate
    /\ env = NoEnv
    /\ http = <<>>
    /\ out = <<>>
    /\ response = NoResponse
    /\ image = ""
    /\ error = NoError
    /\ log = <<>>
    /\ escaped = FALSE

\* the locals of one handler invocation, as one value
Locals ==
    [pc |-> pc, handler |-> handler, update |-> update, env |-> env,
     http |-> http, out |-> out, response |-> response, image |-> image,
     error |-> error, log |-> log, escaped |-> escaped]

IdleLocals ==
    [pc |-> "idle", handler |-> "none", update |-> NoUpdate, env |-> NoEnv,
     http |-> <<>>, out |-> <<>>, response |-> NoResponse, image |-> "",
     error |-> NoError, log |-> <<>>, escaped |-> FALSE]

\* what one invocation was given and what it did
Observed == [update |-> update, env |-> env, http |-> http, out |-> out]

NoEarlier == [update |-> NoUpdate, env |-> NoEnv, http |-> <<>>, out |-> <<>>]

\* main has not run yet; the logger is initialised at import
InitRest ==
    /\ config = Config
    /\ TELEGRAM_TOKEN \in Tokens
    /\ startup = [pc |-> "main", log |-> <<<<"info", "logger initialised">>>>,
                  updater |-> FALSE, handlers |-> <<>>, error |-> NoError]
    /\ earlier = NoEarlier
    /\ other = IdleLocals

Init == InitHandler /\ InitRest /\ payload = NoBody /\ parsed = NoParsed

-----------------------------------------------------------------------------
(* Actions *)

check_token_lenient(token) ==
    IF token \notin {"None", ""}
    THEN [ok |-> TRUE, log |-> <<<<"info", "token checked">>>>]
    ELSE [ok |-> TRUE, log |-> <<<<"critical", "token missing">>>>]

\* check_token: a token that is None or empty is missing
check_token(token) ==
    IF token \notin {"None", ""}
    THEN [ok |-> TRUE, log |-> <<<<"info", "token checked">>>>]
    ELSE [ok |-> FALSE, log |-> <<<<"critical", "token missing">>>>]

EnvVariableError == Raise("EnvVariableError", "")

\* main: if check_token() is False: raise EnvVariableError
CheckToken ==
    /\ startup.pc = "main"
    /\ LET r == check_token(TELEGRAM_TOKEN) IN
          startup' = [startup EXCEPT
                         !.log = @ \o r.log,
                         !.pc = IF r.ok THEN "checked" ELSE "failed",
                         !.error = IF r.ok THEN NoError ELSE EnvVariableError]
    /\ UNCHANGED <<handlerVars, payload, parsed, config, TELEGRAM_TOKEN, earlier, other>>

\* main: updater = Updater(token=TELEGRAM_TOKEN)
CreateUpdater ==
    /\ startup.pc = "checked"
    /\ startup' = [startup EXCEPT !.updater = TRUE, !.pc = "updater"]
    /\ UNCHANGED <<handlerVars, payload, parsed, config, TELEGRAM_TOKEN, earlier, other>>

\* main: the three add_handler calls
AddHandlers ==
    /\ startup.pc = "updater"
    /\ startup' = [startup EXCEPT !.handlers = Registration, !.pc = "registered"]
    /\ UNCHANGED <<handlerVars, payload, parsed, config, TELEGRAM_TOKEN, earlier, other>>

\* main: updater.start_polling(); updater.idle()
StartPolling ==
    /\ startup.pc = "registered"
    /\ startup' = [startup EXCEPT !.pc = "polling"]
    /\ UNCHANGED <<handlerVars, payload, parsed, config, TELEGRAM_TOKEN, earlier, other>>

\* the dispatcher hands an update (one of U, with outcomes one of E for the
\* calls its handler will make) to the first matching handler
DispatchFrom(U, E) ==
    /\ pc = "idle"
    /\ startup.pc = "polling"
    /\ \E u \in U, e \in E :
          /\ update' = u
          /\ env' = e
          /\ handler' = select_handler(u)
          /\ pc' = Entry(select_handler(u))
    /\ UNCHANGED <<http, out, response, image, error, log, escaped, payload, parsed, restVars>>

Dispatch == DispatchFrom(Updates, Envs)

Greet_stop_on_failure ==
    /\ pc = "greet"
    /\ LET r == send_message(update.chat_id, greeting(update.first_name),
                             env.send[NumSends(out) + 1]) IN
          /\ out' = Append(out, r.call)
          /\ log' = log \o Received \o r.log
          /\ IF env.send[NumSends(out) + 1]
             THEN pc' = "get_primary"
             ELSE pc' = "done"
          /\ UNCHANGED <<escaped, error>>
    /\ UNCHANGED <<handler, update, env, http, response, image, payload, parsed, restVars>>

\* wake_up up to its try: the greeting, sent outside any try of wake_up
Greet ==
    /\ pc = "greet"
    /\ LET r == send_message(update.chat_id, greeting(update.first_name),
                             env.send[NumSends(out) + 1]) IN
          /\ out' = Append(out, r.call)
          /\ log' = log \o Received \o r.log
          /\ IF r.raised
             THEN pc' = "done" /\ escaped' = TRUE /\ error' = r.error
             ELSE pc' = "get_primary" /\ UNCHANGED <<escaped, error>>
    /\ UNCHANGED <<handler, update, env, http, response, image, payload, parsed, restVars>>

GetPrimary_sticky ==
    /\ pc = "get_primary"
    /\ http' = Append(http, config.DEFAULT_ENDPOINT)
    /\ LET r == get_response_primary(env.primary) IN
          /\ log' = log \o (IF handler = "new_image" THEN Received ELSE <<>>) \o r.log
          /\ IF r.failed
             THEN /\ pc' = "get_backup"
                  /\ config' = [config EXCEPT
                                    !.DEFAULT_ENDPOINT = config.BACKUP_ENDPOINT,
                                    !.BACKUP_ENDPOINT = config.DEFAULT_ENDPOINT]
                  /\ UNCHANGED response
             ELSE pc' = "parse" /\ response' = r.response /\ UNCHANGED config
    /\ UNCHANGED <<handler, update, env, out, image, error, escaped, payload, parsed,
                   TELEGRAM_TOKEN, startup, earlier, other>>

\* get_response, the request to DEFAULT_ENDPOINT
GetPrimary ==
    /\ pc = "get_primary"
    /\ http' = Append(http, config.DEFAULT_ENDPOINT)
    /\ LET r == get_response_primary(env.primary) IN
          /\ log' = log \o (IF handler = "new_image" THEN Received ELSE <<>>) \o r.log
          /\ IF r.failed
             THEN pc' = "get_backup" /\ UNCHANGED response
             ELSE pc' = "parse" /\ response' = r.response
    /\ UNCHANGED <<handler, update, env, out, image, error, escaped, payload, parsed, restVars>>

GetBackup_promote ==
    /\ pc = "get_backup"
    /\ http' = Append(http, config.BACKUP_ENDPOINT)
    /\ LET r == get_response_backup(env.backup) IN
          /\ log' = log \o r.log
          /\ IF r.raised
             THEN pc' = "except" /\ error' = r.error /\ UNCHANGED <<response, config>>
             ELSE /\ pc' = "parse"
                  /\ response' = r.response
                  /\ config' = [config EXCEPT
                                    !.DEFAULT_ENDPOINT = config.BACKUP_ENDPOINT,
                                    !.BACKUP_ENDPOINT = config.DEFAULT_ENDPOINT]
                  /\ UNCHANGED error
    /\ UNCHANGED <<handler, update, env, out, image, escaped, payload, parsed,
                   TELEGRAM_TOKEN, startup, earlier, other>>

\* get_response, the request to BACKUP_ENDPOINT
GetBackup ==
    /\ pc = "get_backup"
    /\ http' = Append(http, config.BACKUP_ENDPOINT)
    /\ LET r == get_response_backup(env.backup) IN
          /\ log' = log \o r.log
          /\ IF r.raised
             THEN pc' = "except" /\ error' = r.error /\ UNCHANGED response
             ELSE pc' = "parse" /\ response' = r.response /\ UNCHANGED error
    /\ UNCHANGED <<handler, update, env, out, image, escaped, payload, parsed, restVars>>

\* image = parse_answer(response)
ParseAnswer ==
    /\ pc = "parse"
    /\ LET r == parse_answer(response.body) IN
          /\ log' = log \o r.log
          /\ IF r.raised
             THEN pc' = "except" /\ error' = r.error /\ UNCHANGED image
             ELSE pc' = "send_photo" /\ image' = r.value /\ UNCHANGED error
    /\ UNCHANGED <<handler, update, env, http, out, response, escaped, payload, parsed, restVars>>

SendPhoto_raising_after ==
    /\ pc = "send_photo"
    /\ out' = Append(out, SendImage(update.chat_id, image))
    /\ pc' = "except"
    /\ error' = TelegramError
    /\ UNCHANGED log
    /\ UNCHANGED <<handler, update, env, http, response, image, escaped, payload, parsed, restVars>>

\* context.bot.send_photo(chat.id, image)
SendPhoto ==
    /\ pc = "send_photo"
    /\ out' = Append(out, SendImage(update.chat_id, image))
    /\ IF env.photo
       THEN /\ pc' = "done"
            /\ log' = Append(log, <<"info", "image sent">>)
            /\ UNCHANGED error
       ELSE /\ pc' = "except"
            /\ error' = TelegramError
            /\ UNCHANGED log
    /\ UNCHANGED <<handler, update, env, http, response, image, escaped, payload, parsed, restVars>>

Except_retry ==
    /\ pc = "except"
    /\ IF Len(http) <= 2
       THEN /\ pc' = "get_primary"
            /\ log' = Append(log, <<"error", "image flow failed">>)
            /\ UNCHANGED <<out, escaped, error>>
       ELSE LET r == send_message(update.chat_id, apology_text(handler, error),
                                  env.send[NumSends(out) + 1]) IN
               /\ out' = Append(out, r.call)
               /\ log' = log \o <<<<"error", "image flow failed">>>> \o r.log
               /\ pc' = "done"
               /\ UNCHANGED <<escaped, error>>
    /\ UNCHANGED <<handler, update, env, http, response, image, payload, parsed, restVars>>

\* except Exception of wake_up and new_image: log and apologise
Except ==
    /\ pc = "except"
    /\ LET r == send_message(update.chat_id, apology_text(handler, error),
                             env.send[NumSends(out) + 1]) IN
          /\ out' = Append(out, r.call)
          /\ log' = log \o <<<<"error", "image flow failed">>>> \o r.log
          /\ pc' = "done"
          /\ IF r.raised
             THEN escaped' = TRUE /\ error' = r.error
             ELSE UNCHANGED <<escaped, error>>
    /\ UNCHANGED <<handler, update, env, http, response, image, payload, parsed, restVars>>

\* reply_to_message
Reply ==
    /\ pc = "reply"
    /\ LET r == send_message(update.chat_id, CANT_CHAT, env.send[NumSends(out) + 1]) IN
          /\ out' = Append(out, r.call)
          /\ log' = log \o Received \o r.log
          /\ pc' = "done"
          /\ IF r.raised
             THEN escaped' = TRUE /\ error' = r.error
             ELSE UNCHANGED <<escaped, error>>
    /\ UNCHANGED <<handler, update, env, http, response, image, payload, parsed, restVars>>

\* the locals of a handler end with its invocation
Reset ==
    /\ pc' = "idle"
    /\ handler' = "none"
    /\ update' = NoUpdate
    /\ env' = NoEnv
    /\ http' = <<>>
    /\ out' = <<>>
    /\ response' = NoResponse
    /\ image' = ""
    /\ error' = NoError
    /\ log' = <<>>

\* the handler has returned; nothing of the invocation is kept
Return ==
    /\ pc = "done"
    /\ ~escaped
    /\ Reset
    /\ UNCHANGED <<escaped, payload, parsed, restVars>>

Next ==
    \/ CheckToken
    \/ CreateUpdater
    \/ AddHandlers
    \/ StartPolling
    \/ Dispatch
    \/ Greet
    \/ GetPrimary
    \/ GetBackup
    \/ ParseAnswer
    \/ SendPhoto
    \/ Except
    \/ Reply
    \/ Return

Spec == Init /\ [][Next]_vars

-----------------------------------------------------------------------------
(* Repeated handling: the same handlers, with updates and outcomes drawn   *)
(* from a smaller set so that one returned invocation can be kept in       *)
(* earlier and met again by a later one.                                   *)

Good == [t |-> "list", items |-> <<[t |-> "dict", d |-> [url |-> "http://x/cat.png"]]>>]

SmallUpdates == [text : {"/start", BUTTON, "hello"}, chat_id : 1..NumChats, first_name : {"Ann"}]

SmallEnvs ==
    [primary : {TransportError,
                [err |-> FALSE, status |-> OK, body |-> Good],
                [err |-> FALSE, status |-> OK, body |-> [t |-> "list", items |-> <<>>]]},
     backup : {[err |-> FALSE, status |-> OK, body |-> Good],
               [err |-> FALSE, status |-> 500, body |-> Good]},
     send : {[k \in 1..MaxSends |-> b] : b \in BOOLEAN},
     photo : BOOLEAN]

DispatchSmall == DispatchFrom(SmallUpdates, SmallEnvs)

\* the handler has returned and what it did is kept in earlier
Remember ==
    /\ pc = "done"
    /\ ~escaped
    /\ Reset
    /\ earlier' = Observed
    /\ UNCHANGED <<escaped, payload, parsed, config, TELEGRAM_TOKEN, startup, other>>

NextRepeat ==
    \/ CheckToken
    \/ CreateUpdater
    \/ AddHandlers
    \/ StartPolling
    \/ DispatchSmall
    \/ Greet
    \/ GetPrimary
    \/ GetBackup
    \/ ParseAnswer
    \/ SendPhoto
    \/ Except
    \/ Reply
    \/ Return
    \/ Remember

SpecRepeat == Init /\ [][NextRepeat]_vars

-----------------------------------------------------------------------------
(* Concurrent delivery: two handler invocations, one running and one       *)
(* suspended in other; Switch suspends the running one between any two of  *)
(* its steps and resumes the other.  Only the locals are switched: config  *)
(* is the one module-level state both invocations read.                    *)

Switch ==
    /\ startup.pc = "polling"
    /\ other # Locals
    /\ other' = Locals
    /\ pc' = other.pc
    /\ handler' = other.handler
    /\ update' = other.update
    /\ env' = other.env
    /\ http' = other.http
    /\ out' = other.out
    /\ response' = other.response
    /\ image' = other.image
    /\ error' = other.error
    /\ log' = other.log
    /\ escaped' = other.escaped
    /\ UNCHANGED <<payload, parsed, config, TELEGRAM_TOKEN, startup, earlier>>

NextConc ==
    \/ CheckToken
    \/ CreateUpdater
    \/ AddHandlers
    \/ StartPolling
    \/ DispatchSmall
    \/ Greet
    \/ GetPrimary
    \/ GetBackup
    \/ ParseAnswer
    \/ SendPhoto
    \/ Except
    \/ Reply
    \/ Return
    \/ Switch

SpecConc == Init /\ [][NextConc]_vars

-----------------------------------------------------------------------------
(* parse_answer on its own: any payload, parsed once *)

InitParse == InitHandler /\ InitRest /\ payload \in Payloads /\ parsed = NoParsed

Parse ==
    /\ parsed = NoParsed
    /\ parsed' = parse_answer(payload)
    /\ UNCHANGED <<handlerVars, payload, restVars>>

NextParse == Parse

SpecParse == InitParse /\ [][NextParse]_vars

-----------------------------------------------------------------------------
(* Vocabulary of the properties, stated on env and the recorded calls only *)

ImageFlow == handler \in {"wake_up", "new_image"}

Last(seq) == seq[Len(seq)]

NoPhoto == \A i \in DOMAIN out : out[i].op # "send_photo"

Apology == SendText(update.chat_id, APOLOGY)

Greeting ==
    SendText(update.chat_id,
             <<"Privet, ", update.first_name, ". Posmotri, kakogo kotika ya tebe nashel!">>)

Non200(o) == ~o.err /\ o.status # 200

PrimaryNotSuccess == env.primary.err \/ env.primary.status # 200

BothNon200 == Non200(env.primary) /\ Non200(env.backup)

FetchFails == PrimaryNotSuccess /\ (env.backup.err \/ env.backup.status # 200)

\* the response get_response returns when it does not fail
Fetched == IF PrimaryNotSuccess THEN env.backup ELSE env.primary

WellShaped(body) ==
    /\ body.t = "list"
    /\ Len(body.items) >= 1
    /\ body.items[1].t = "dict"
    /\ "url" \in DOMAIN body.items[1].d

ParseFails == ~FetchFails /\ ~WellShaped(Fetched.body)

PhotoFails == ~FetchFails /\ ~ParseFails /\ ~env.photo

FlowFails == FetchFails \/ ParseFails \/ PhotoFails

FetchReturned == ImageFlow /\ pc \in {"parse", "send_photo", "except", "done"}

-----------------------------------------------------------------------------
(* C1: get_response requests the primary endpoint first, and the secondary *)
(* endpoint if and only if the primary attempt raised a transport error or *)
(* answered a status other than 200; then it issues exactly one request to *)
(* the secondary endpoint, and when the primary answers 200 it issues none *)
(* and returns the primary response.                                       *)
C1_FallbackIffPrimaryFailed ==
    /\ Len(http) <= 2
    /\ (Len(http) >= 1 => http[1] = DEFAULT_ENDPOINT)
    /\ (Len(http) = 2 => http[2] = BACKUP_ENDPOINT /\ PrimaryNotSuccess)
    /\ (ImageFlow /\ pc = "get_backup" => http = <<DEFAULT_ENDPOINT>> /\ PrimaryNotSuccess)
    /\ (FetchReturned =>
           /\ Len(http) >= 1
           /\ (Len(http) = 2 <=> PrimaryNotSuccess)
           /\ (~PrimaryNotSuccess /\ pc = "parse" => response = env.primary))

C1_Witness ==
    /\ pc = "parse"
    /\ http = <<DEFAULT_ENDPOINT, BACKUP_ENDPOINT>>
    /\ Non200(env.primary)
    /\ response = env.backup

(* C2: when both endpoints answer a status other than 200, get_response    *)
(* fails with APIAnswerStatusCodeError naming the secondary endpoint and   *)
(* the secondary's status code.                                            *)
C2_BothFailNamesBackup ==
    ImageFlow /\ BothNon200 =>
        /\ pc \notin {"parse", "send_photo"}
        /\ (pc \in {"except", "done"} =>
               /\ error.type = "APIAnswerStatusCodeError"
               /\ error.endpoint = BACKUP_ENDPOINT
               /\ error.status = env.backup.status)

C2_Witness ==
    /\ pc = "except"
    /\ ImageFlow
    /\ BothNon200
    /\ env.primary.status = 404
    /\ env.backup.status = 500
    /\ error.status = 500

C4_BackupTransportErrorPropagates ==
    ImageFlow /\ PrimaryNotSuccess /\ env.backup.err =>
        /\ pc \notin {"parse", "send_photo"}
        /\ (pc \in {"except", "done"} =>
               /\ error.type = "RequestException"
               /\ http = <<DEFAULT_ENDPOINT, BACKUP_ENDPOINT>>)
        /\ (pc = "done" => Last(out) = Apology /\ NoPhoto)

C4_Witness ==
    /\ pc = "done"
    /\ handler = "new_image"
    /\ Non200(env.primary)
    /\ env.backup.err
    /\ out = <<Apology>>

(* C5: a parse failure on the primary endpoint's 200 response triggers no  *)
(* fallback: no request to the secondary endpoint is made and the handler  *)
(* goes to the apology.                                                    *)
C5_ParseFailureNoFallback ==
    ImageFlow /\ ~PrimaryNotSuccess /\ ~WellShaped(env.primary.body) =>
        /\ pc \notin {"get_backup", "send_photo"}
        /\ (\A i \in DOMAIN http : http[i] # BACKUP_ENDPOINT)
        /\ NoPhoto
        /\ (pc \in {"parse", "except", "done"} => http = <<DEFAULT_ENDPOINT>>)
        /\ (pc = "done" => Last(out) = Apology)

C5_Witness ==
    /\ pc = "done"
    /\ ImageFlow
    /\ ~env.primary.err
    /\ env.primary.status = 200
    /\ env.primary.body.t = "bad"
    /\ http = <<DEFAULT_ENDPOINT>>

(* C6: for a start command the greeting, addressed by the sender's name,   *)
(* is the first gateway call and is made before any HTTP request; when the *)
(* image flow succeeds the gateway calls are the greeting and then the     *)
(* image with the parsed URL, both to the sender's chat.                   *)
C6_GreetingThenImage ==
    handler = "wake_up" =>
        /\ (pc = "greet" => http = <<>> /\ out = <<>>)
        /\ (pc # "greet" => Len(out) >= 1 /\ out[1] = Greeting)
        /\ (pc = "done" /\ ~FlowFails =>
               out = <<Greeting,
                       SendImage(update.chat_id, Fetched.body.items[1].d["url"])>>)

C6_Witness ==
    /\ pc = "done"
    /\ handler = "wake_up"
    /\ update.first_name = "Ann"
    /\ Len(out) = 2
    /\ out[1].arg[2] = "Ann"
    /\ out[2] = SendImage(update.chat_id, "http://x/cat.png")

(* C7: for the button text with both endpoints answering a status other    *)
(* than 200, the gateway receives exactly one call, the apology text, and  *)
(* no image.                                                               *)
C7_TriggerBothFailOneApology ==
    handler = "new_image" /\ BothNon200 =>
        /\ NoPhoto
        /\ (pc = "done" => out = <<Apology>>)
        /\ (pc # "done" => out = <<>>)

C7_Witness ==
    /\ pc = "done"
    /\ handler = "new_image"
    /\ env.primary.status = 500
    /\ env.backup.status = 500
    /\ ~env.primary.err
    /\ ~env.backup.err
    /\ WellShaped(env.backup.body)
    /\ out = <<Apology>>

C9_ParseReturnsFirstUrl ==
    parsed # NoParsed /\ WellShaped(payload) =>
        /\ ~parsed.raised
        /\ parsed.error = NoError
        /\ parsed.value = payload.items[1].d["url"]

C9_Witness ==
    /\ parsed # NoParsed
    /\ Len(payload.items) = 2
    /\ WellShaped(payload)
    /\ "id" \in DOMAIN payload.items[1].d
    /\ payload.items[2].t = "dict"
    /\ "url" \in DOMAIN payload.items[2].d
    /\ payload.items[2].d["url"] # payload.items[1].d["url"]
    /\ parsed.value = "http://x/cat.png"

(* C10: parse_answer fails with the error of the first failing check, in   *)
(* the order: not a list (TypeError), empty list (ValueError), first       *)
(* element not an object (TypeError), first element without "url"          *)
(* (KeyError); it returns no value for such payloads.                      *)
C10_ParseErrorKinds ==
    parsed # NoParsed /\ payload.t # "bad" /\ ~WellShaped(payload) =>
        /\ parsed.raised
        /\ parsed.value = ""
        /\ IF payload.t # "list"
           THEN parsed.error.type = "TypeError" /\ parsed.error.msg = "expected list"
           ELSE IF Len(payload.items) = 0
           THEN parsed.error.type = "ValueError"
           ELSE IF payload.items[1].t # "dict"
           THEN parsed.error.type = "TypeError" /\ parsed.error.msg = "expected dict"
           ELSE parsed.error.type = "KeyError"

C10_Witness ==
    /\ parsed # NoParsed
    /\ Len(payload.items) = 2
    /\ payload.items[1].t = "str"
    /\ WellShaped([t |-> "list", items |-> Tail(payload.items)])
    /\ parsed.raised
    /\ parsed.error.type = "TypeError"

(* C11: a body that does not decode as JSON makes parse_answer fail with    *)
(* the JSON decode error, a kind distinct from the ones of the other       *)
(* checks (TypeError, ValueError, KeyError).                               *)
C11_MalformedPayloadKind ==
    parsed # NoParsed /\ payload.t = "bad" =>
        /\ parsed.raised
        /\ parsed.error.type = "JSONDecodeError"
        /\ parsed.error.type \notin {"TypeError", "ValueError", "KeyError"}

(* C12: the apology is one fixed sentence: every text sent by an image     *)
(* flow other than the greeting is the same literal, whatever failed and   *)
(* whichever handler ran.                                                  *)
C12_ApologyIsFixed ==
    ImageFlow =>
        /\ \A i \in DOMAIN out :
              out[i].op = "send_message" /\ ~(handler = "wake_up" /\ i = 1) =>
                  /\ out[i].arg = <<"K sozhaleniyu, servis na dannyi moment nedostupen. Poprobuite obratitsya pozdnee.">>
                  /\ out[i].chat_id = update.chat_id
        /\ (pc = "done" /\ FlowFails => Last(out).op = "send_message" /\ Len(out) >= 1)

C12_Witness ==
    /\ pc = "done"
    /\ handler = "wake_up"
    /\ error.type = "KeyError"
    /\ Len(out) = 2
    /\ out[2].op = "send_message"

(* C13: one handling of a start command or of the button text calls        *)
(* get_response exactly once, whatever fails afterwards: one request to    *)
(* the primary endpoint and at most two GETs in all.                       *)
C13_OneFetchPerRequest ==
    ImageFlow =>
        LET primaries == Cardinality({i \in DOMAIN http : http[i] = DEFAULT_ENDPOINT}) IN
           /\ primaries <= 1
           /\ (pc \in {"get_backup", "parse", "send_photo", "except", "done"} =>
                  primaries = 1 /\ Len(http) \in {1, 2})
           /\ (pc \in {"greet", "get_primary"} => http = <<>>)

C13_Witness ==
    /\ pc = "done"
    /\ ImageFlow
    /\ PhotoFails
    /\ PrimaryNotSuccess
    /\ http = <<DEFAULT_ENDPOINT, BACKUP_ENDPOINT>>
    /\ Last(out) = Apology

(* C14: handling is stateless: an update handled again with the same       *)
(* outcomes of the HTTP and gateway calls, after any number of other       *)
(* updates, causes the same HTTP requests and the same gateway calls.      *)
C14_RepeatIsIdentical ==
    pc = "done" /\ earlier.update = update /\ earlier.env = env =>
        /\ http = earlier.http
        /\ out = earlier.out

C14_Witness ==
    /\ pc = "done"
    /\ handler = "wake_up"
    /\ earlier.update = update
    /\ earlier.env = env
    /\ env.primary.err
    /\ ~env.photo
    /\ http = <<DEFAULT_ENDPOINT, BACKUP_ENDPOINT>>
    /\ Len(out) = 3
    /\ out = earlier.out

(* C15: without a bot token, startup logs a critical message and fails     *)
(* before the gateway is constructed, before any handler is registered     *)
(* and before polling, so no update is ever handled; with a token,         *)
(* startup does not fail and goes on to polling.  A token that is not set  *)
(* or is empty counts as absent.                                           *)
C15_NoTokenNoStartup ==
    LET absent == TELEGRAM_TOKEN = "None" \/ TELEGRAM_TOKEN = "" IN
       /\ (absent =>
              /\ startup.pc \in {"main", "failed"}
              /\ ~startup.updater
              /\ startup.handlers = <<>>
              /\ pc = "idle" /\ handler = "none" /\ out = <<>> /\ http = <<>>)
       /\ (absent /\ startup.pc = "failed" =>
              /\ Last(startup.log) = <<"critical", "token missing">>
              /\ startup.error.type = "EnvVariableError")
       /\ (~absent => startup.pc # "failed" /\ startup.error = NoError
                      /\ \A i \in DOMAIN startup.log : startup.log[i][1] # "critical")
       /\ (~absent /\ startup.pc # "polling" =>
              ENABLED (CheckToken \/ CreateUpdater \/ AddHandlers \/ StartPolling))
       /\ (startup.handlers # <<>> => startup.updater)
       /\ (startup.pc = "polling" => Len(startup.handlers) = 3)
       /\ (pc # "idle" => startup.pc = "polling")

C15_Witness ==
    /\ TELEGRAM_TOKEN = "None"
    /\ startup.pc = "failed"
    /\ ~startup.updater
    /\ Len(startup.log) = 2

(* What an update u causes when it is handled alone, as a function of u    *)
(* and of the outcomes e of the calls: the HTTP requests and the gateway   *)
(* calls, in order.                                                        *)
AloneHttp(u, e) ==
    IF u.text \notin {"/start", BUTTON} THEN <<>>
    ELSE IF e.primary.err \/ e.primary.status # 200
    THEN <<DEFAULT_ENDPOINT, BACKUP_ENDPOINT>>
    ELSE <<DEFAULT_ENDPOINT>>

AloneOut(u, e) ==
    LET primFail == e.primary.err \/ e.primary.status # 200
        fetchFail == primFail /\ (e.backup.err \/ e.backup.status # 200)
        fetched == IF primFail THEN e.backup ELSE e.primary
        parseOK == ~fetchFail /\ WellShaped(fetched.body)
        greet == IF u.text = "/start"
                 THEN <<SendText(u.chat_id,
                                 <<"Privet, ", u.first_name, ". Posmotri, kakogo kotika ya tebe nashel!">>)>>
                 ELSE <<>>
        photo == IF parseOK
                 THEN <<SendImage(u.chat_id, fetched.body.items[1].d["url"])>>
                 ELSE <<>>
        apology == IF parseOK /\ e.photo THEN <<>> ELSE <<SendText(u.chat_id, APOLOGY)>>
    IN IF u.text \in {"/start", BUTTON}
       THEN greet \o photo \o apology
       ELSE <<SendText(u.chat_id, CANT_CHAT)>>

IsPrefix(a, b) == Len(a) <= Len(b) /\ a = SubSeq(b, 1, Len(a))

AsAlone(l) ==
    l.pc # "idle" =>
        /\ IsPrefix(l.http, AloneHttp(l.update, l.env))
        /\ IsPrefix(l.out, AloneOut(l.update, l.env))
        /\ (l.pc = "done" =>
               /\ l.http = AloneHttp(l.update, l.env)
               /\ l.out = AloneOut(l.update, l.env))

(* C16: when two updates are handled with their steps interleaved, each    *)
(* invocation issues the HTTP requests and makes the gateway calls it      *)
(* makes when handled alone.                                               *)
C16_InterleavedAsAlone == AsAlone(Locals) /\ AsAlone(other)

C16_Witness ==
    /\ pc = "except"
    /\ other.pc = "get_backup"
    /\ Len(http) = 1
    /\ Len(other.http) = 1
    /\ handler = "new_image"
    /\ other.handler = "wake_up"
    /\ update.chat_id # other.update.chat_id

\* the same function describes every handling under serial delivery
SerialAsAlone == AsAlone(Locals)

(* C17: an image flow ends either with a send_photo that succeeded and no  *)
(* apology, or with exactly one attempted apology and no successful        *)
(* send_photo.                                                             *)
C17_PhotoXorApology ==
    ImageFlow /\ pc = "done" =>
        LET photos == {i \in DOMAIN out : out[i].op = "send_photo"}
            apologies == {i \in DOMAIN out : out[i] = Apology}
            delivered == photos # {} /\ env.photo
        IN /\ Cardinality(photos) <= 1
           /\ \/ delivered /\ apologies = {}
              \/ ~delivered /\ Cardinality(apologies) = 1

C17_Witness ==
    /\ pc = "done"
    /\ handler = "new_image"
    /\ ~env.photo
    /\ out = <<SendImage(update.chat_id, "http://x/cat.png"), Apology>>

(* C18: in wake_up a greeting that could not be sent changes nothing of    *)
(* what follows: the failure is logged, get_response is called and the     *)
(* image or the apology is sent.                                           *)
C18_FlowAfterFailedGreeting ==
    handler = "wake_up" /\ ~env.send[1] =>
        /\ ~escaped
        /\ (pc # "greet" => log[2] = <<"error", "send failed">>)
        /\ (pc = "done" =>
               /\ http # <<>>
               /\ http[1] = DEFAULT_ENDPOINT
               /\ Len(out) >= 2
               /\ \/ Last(out) = Apology
                  \/ Last(out).op = "send_photo" /\ env.photo)

C18_Witness ==
    /\ pc = "done"
    /\ handler = "wake_up"
    /\ ~env.send[1]
    /\ env.photo
    /\ Len(out) = 2
    /\ out[2] = SendImage(update.chat_id, "http://x/cat.png")

====
